---- MODULE Spec2Model ----
(***************************************************************************)
(* Model of pair style dpd/jung (src/pair_dpd_jung.cpp): the setup of the  *)
(* pair parameter table (settings, coeff, init_one, restart), the pairwise *)
(* assembly (compute, compute_step) and the Lanczos solver                  *)
(* (compute_inverse).                                                       *)
(*                                                                         *)
(* Numbers.  A C++ double is modelled as a fixed-point number: the integer *)
(* n stands for n / Unit.  Sums and differences are exact, products and    *)
(* quotients are rounded to the nearest multiple of 1/Unit (ties away from *)
(* zero, so rounding is odd-symmetric as IEEE rounding is), square roots   *)
(* are rounded down.  Lengths are counted in multiples of EPSILON/2, so    *)
(* that separations below EPSILON other than 0 exist in the model.         *)
(***************************************************************************)
EXTENDS Integers, Sequences, FiniteSets, TLC

\* resolution of the modelled doubles: n stands for n / Unit
Unit == 1000

\* ------------------------------------------------------------------------
\* arithmetic of the modelled doubles
\* ------------------------------------------------------------------------

Abs(a) == IF a < 0 THEN -a ELSE a

Sgn(a) == IF a < 0 THEN -1 ELSE 1

MAX(a, b) == IF a > b THEN a ELSE b

MIN(a, b) == IF a < b THEN a ELSE b

\* integer quotient a / b rounded to nearest, ties away from zero (b # 0)
RoundDiv(a, b) ==
    Sgn(a) * Sgn(b) * ((2 * Abs(a) + Abs(b)) \div (2 * Abs(b)))

\* product of two doubles
Fmul(a, b) == RoundDiv(a * b, Unit)

\* quotient of two doubles (b # 0)
Fdiv(a, b) == RoundDiv(a * Unit, b)

RECURSIVE IsqrtIter(_, _)
IsqrtIter(n, est) ==
    LET next == (est + n \div est) \div 2
    IN  IF next >= est THEN est ELSE IsqrtIter(n, next)

\* largest integer whose square is at most n (n >= 0)
Isqrt(n) == IF n < 2 THEN n ELSE IsqrtIter(n, n)

\* sqrt() of a double (a >= 0)
Fsqrt(a) == Isqrt(a * Unit)

\* ------------------------------------------------------------------------
\* state
\* ------------------------------------------------------------------------

VARIABLES
    \* pair parameter table and global settings (class members)
    allocated, setflag, a0, gamma, cut, sigma,
    temperature, cut_global, seed, mix_flag, random,
    \* setup bookkeeping: the fatal error raised (error->all), the restart
    \* file, the table as it was when the file was written, the pairs
    \* initialised since the last change of the table, the last operation,
    \* and the number of setup operations done
    err, fp, saved, inited, lastOp, nops,
    \* the engine's data one evaluation reads: positions, velocities, types,
    \* tags, the neighbour lists, newton_pair, the time step, eflag
    x, v, type, tag, firstneigh, newton_pair, dt, eflag,
    \* one evaluation: which of compute ("full") and compute_step ("step")
    \* runs, where it stands in its loops (pc, ii, jj), the vectors f_step,
    \* input and output, what the last step did, whether a division by zero
    \* was performed, and the numbers of Gaussian draws and ev_tally calls
    mode, pc, ii, jj, f_step, input, output, last, divByZero, draws, tallies,
    \* compute_inverse: the Krylov basis Vn (its columns), the vector rk, the
    \* coefficients alpha and beta, the norm of the right-hand side, the loop
    \* counter k (here kk), xk_save, the buffer test_out, and the record of what each
    \* turn of the Lanczos loop computed
    Vn, rk, alpha, beta, norm, kk, xk_save, test_out, hist

setupVars == <<allocated, setflag, a0, gamma, cut, sigma,
               temperature, cut_global, seed, mix_flag, random,
               err, fp, saved, inited, lastOp, nops>>

configVars == <<x, v, type, tag, firstneigh, newton_pair, dt, eflag>>

evalVars == <<mode, pc, ii, jj, f_step, input, output, last, divByZero,
              draws, tallies>>

solveVars == <<Vn, rk, alpha, beta, norm, kk, xk_save, test_out, hist>>

vars == <<setupVars, configVars, evalVars, solveVars>>

\* the values of the variables of an evaluation while none runs
EvalIdle ==
    /\ x = 0 /\ v = 0 /\ type = 0 /\ tag = 0 /\ firstneigh = 0
    /\ newton_pair = 0 /\ dt = 0 /\ eflag = 0
    /\ mode = "none" /\ pc = "idle" /\ ii = 0 /\ jj = 0
    /\ f_step = 0 /\ input = 0 /\ output = 0 /\ last = 0
    /\ divByZero = FALSE /\ draws = 0 /\ tallies = 0

\* the values of the variables of compute_inverse while it does not run
SolveIdle ==
    /\ Vn = << >> /\ rk = 0 /\ alpha = 0 /\ beta = 0 /\ norm = 0 /\ kk = 0
    /\ xk_save = 0 /\ test_out = 0 /\ hist = << >>

\* ------------------------------------------------------------------------
\* setup: bounds and inputs
\* ------------------------------------------------------------------------

\* atom->ntypes
ntypes == 2

\* number of pair_style / pair_coeff commands in one run of the model
MaxOps == 2

Types == 1..ntypes

\* the unordered type pairs i <= j, in the order of the loops over them
RECURSIVE PairsFrom(_, _)
PairsFrom(i, j) ==
    IF i > ntypes THEN << >>
    ELSE IF j > ntypes THEN PairsFrom(i + 1, i + 1)
    ELSE <<(<<i, j>>)>> \o PairsFrom(i, j + 1)

PairSeq == PairsFrom(1, 1)

PairSet == {PairSeq[k] : k \in 1..Len(PairSeq)}

\* values an argument of pair_style / pair_coeff may take
Temps == {Unit, 2 * Unit}

Cuts == {4 * Unit, 6 * Unit}

CutArgs == {5 * Unit}

\* the ranges force->bounds() returns for "1", "2", ... and "*"
TypeRanges == {<<t, t>> : t \in Types} \cup {<<1, ntypes>>}

Seeds == {0, 7}

A0s == {25 * Unit}

Gammas == {0, 4500}

\* what memory that was never written may hold
Garbage == {7 * Unit}

\* force->boltz in lj units
boltz == Unit

NoError == "none"

Table(val) == [i \in Types |-> [j \in Types |-> val]]

\* comm->me: the rank of the one process modelled
me == 0

SizeofInt == 4

SizeofDouble == 8

\* a restart file is a sequence of cells <<size in bytes, value>>
RECURSIVE FileBytes(_)
FileBytes(file) ==
    IF file = << >> THEN 0 ELSE file[1][1] + FileBytes(Tail(file))

\* index of the cell that starts at byte offset off, 0 if none does
RECURSIVE CellAt(_, _, _)
CellAt(file, off, k) ==
    IF k > Len(file) THEN 0
    ELSE IF off = 0 THEN k
    ELSE IF off < file[k][1] THEN 0
    ELSE CellAt(file, off - file[k][1], k + 1)

\* fwrite(&v, size, 1, fp)
Fwrite(file, size, val) == Append(file, <<size, val>>)

\* fread(&v, size, 1, fp) at byte offset off: the value stored there, or
\* whatever the bytes at a place that holds no such object decode to
Fread(file, off, size) ==
    LET k == CellAt(file, off, 1)
    IN  IF k > 0 /\ file[k][1] = size THEN file[k][2] ELSE 0 - 1

\* ------------------------------------------------------------------------
\* setup operations
\* ------------------------------------------------------------------------

\* allocate(): setflag[i][j] = 0 for i <= j, sigma = gamma = 0.0; cut, a0
\* and the rest of setflag are left as memory->create returned them
AllocSetflag(g) == [i \in Types |-> [j \in Types |-> IF i <= j THEN 0 ELSE g]]

SetupInit ==
    /\ EvalIdle
    /\ SolveIdle
    /\ allocated = 0
    \* the tables are not allocated yet; the settings are only read after
    \* settings() or read_restart_settings() has written them
    /\ setflag = Table(0)
    /\ a0 = Table(0)
    /\ gamma = Table(0)
    /\ cut = Table(0)
    /\ sigma = Table(0)
    /\ temperature = 0
    /\ cut_global = 0
    /\ seed = 0
    /\ mix_flag \in {0, 1}
    /\ random = 0
    /\ err = NoError
    /\ fp = << >>
    /\ saved = [temperature |-> 0, cut_global |-> 0, seed |-> 0, mix_flag |-> 0,
                setflag |-> Table(0), a0 |-> Table(0), gamma |-> Table(0),
                cut |-> Table(0)]
    /\ inited = {}
    /\ lastOp = <<"construct">>
    /\ nops = 0

\* the cutoffs settings() resets: those of the pairs explicitly set
ResetCuts(cg) ==
    [i \in Types |-> [j \in Types |->
        IF i <= j /\ setflag[i][j] # 0 THEN cg ELSE cut[i][j]]]

\* settings(narg, arg) with arg = (T, cg, sd)
Settings(narg, T, cg, sd) ==
    /\ err = NoError
    /\ UNCHANGED <<configVars, evalVars, solveVars>>
    /\ nops < MaxOps
    /\ nops' = nops + 1
    /\ lastOp' = <<"settings">>
    /\ inited' = {}
    /\ UNCHANGED <<allocated, setflag, a0, gamma, sigma, mix_flag, fp, saved>>
    /\ IF narg # 3
       THEN /\ err' = "Illegal pair_style command"
            /\ UNCHANGED <<temperature, cut_global, seed, random, cut>>
       ELSE /\ temperature' = T
            /\ cut_global' = cg
            /\ seed' = sd
            /\ IF sd <= 0
               THEN /\ err' = "Illegal pair_style command"
                    /\ UNCHANGED <<random, cut>>
               ELSE /\ err' = NoError
                    /\ random' = sd + me
                    /\ cut' = IF allocated = 1 THEN ResetCuts(cg) ELSE cut

\* the pairs the loops of coeff() visit
CoeffPairs(ilo, ihi, jlo, jhi) ==
    {p \in Types \X Types :
        /\ ilo <= p[1] /\ p[1] <= ihi
        /\ MAX(jlo, p[1]) <= p[2] /\ p[2] <= jhi}

CoeffSet(tab, ps, val) ==
    [i \in Types |-> [j \in Types |-> IF <<i, j>> \in ps THEN val ELSE tab[i][j]]]

\* coeff(narg, arg) with arg = (ilo*ihi, jlo*jhi, a0_one, gamma_one [, c])
Coeff(narg, ilo, ihi, jlo, jhi, a0_one, gamma_one, c) ==
    /\ err = NoError
    /\ UNCHANGED <<configVars, evalVars, solveVars>>
    \* pair_coeff follows pair_style or a restart, which create the generator
    /\ random # 0
    /\ nops < MaxOps
    /\ nops' = nops + 1
    /\ lastOp' = <<"coeff">>
    /\ inited' = {}
    /\ UNCHANGED <<temperature, cut_global, seed, mix_flag, random, fp, saved>>
    /\ IF narg < 4 \/ narg > 5
       THEN /\ err' = "Incorrect args for pair coefficients"
            /\ UNCHANGED <<allocated, setflag, a0, gamma, cut, sigma>>
       ELSE \E g \in (IF allocated = 0 THEN Garbage ELSE {0}) :
            LET fresh == allocated = 0
                sf    == IF fresh THEN AllocSetflag(g) ELSE setflag
                a     == IF fresh THEN Table(g) ELSE a0
                gm    == IF fresh THEN Table(0) ELSE gamma
                ct    == IF fresh THEN Table(g) ELSE cut
                cut_one == IF narg = 5 THEN c ELSE cut_global
                ps    == CoeffPairs(ilo, ihi, jlo, jhi)
            IN  /\ allocated' = 1
                /\ sigma' = IF fresh THEN Table(0) ELSE sigma
                /\ a0' = CoeffSet(a, ps, a0_one)
                /\ gamma' = CoeffSet(gm, ps, gamma_one)
                /\ cut' = CoeffSet(ct, ps, cut_one)
                /\ setflag' = CoeffSet(sf, ps, 1)
                /\ err' = IF ps = {}
                          THEN "Incorrect args for pair coefficients"
                          ELSE NoError

\* SigmaOf without the factor 2
SigmaOfNoTwo(T, g) == Fsqrt(Fmul(Fmul(boltz, T), g))

\* the noise coefficient init_one() derives
SigmaOf(T, g) == Fsqrt(Fmul(Fmul(2 * boltz, T), g))

\* tab with tab[j][i] set to tab[i][j]
Mirror(tab, i, j) == [tab EXCEPT ![j][i] = tab[i][j]]

\* CoeffsSet with the check of setflag left out
CoeffsSetUnchecked(i, j) == TRUE

\* whether init_one() finds the pair's coefficients set
CoeffsSet(i, j) == setflag[i][j] # 0

\* init_one(i, j), called for i <= j before a run
InitOne(i, j) ==
    /\ err = NoError
    /\ UNCHANGED <<configVars, evalVars, solveVars>>
    /\ allocated = 1
    \* Pair::init() takes the pairs in the order of PairSeq
    /\ Cardinality(inited) < Len(PairSeq)
    /\ <<i, j>> = PairSeq[Cardinality(inited) + 1]
    /\ lastOp' = <<"init_one", i, j>>
    /\ UNCHANGED <<allocated, setflag, temperature, cut_global, seed,
                   mix_flag, random, fp, saved, nops>>
    /\ IF ~CoeffsSet(i, j)
       THEN /\ err' = "All pair coeffs are not set"
            /\ UNCHANGED <<a0, gamma, cut, sigma, inited>>
       ELSE LET sg == [sigma EXCEPT ![i][j] = SigmaOf(temperature, gamma[i][j])]
            IN  /\ err' = NoError
                /\ sigma' = Mirror(sg, i, j)
                /\ cut' = Mirror(cut, i, j)
                /\ a0' = Mirror(a0, i, j)
                /\ gamma' = Mirror(gamma, i, j)
                /\ inited' = inited \cup {<<i, j>>}

\* what write_restart() writes for the pair (i, j)
WritePair(file, i, j) ==
    LET f1 == Fwrite(file, SizeofInt, setflag[i][j])
    IN  IF setflag[i][j] # 0
        THEN Fwrite(Fwrite(Fwrite(f1, SizeofDouble, a0[i][j]),
                           SizeofDouble, gamma[i][j]),
                    SizeofDouble, cut[i][j])
        ELSE f1

RECURSIVE WritePairs(_, _)
WritePairs(file, k) ==
    IF k > Len(PairSeq) THEN file
    ELSE WritePairs(WritePair(file, PairSeq[k][1], PairSeq[k][2]), k + 1)

\* write_restart_settings(fp)
WriteSettings(file) ==
    Fwrite(Fwrite(Fwrite(Fwrite(file, SizeofDouble, temperature),
                         SizeofDouble, cut_global),
                  SizeofInt, seed),
           SizeofInt, mix_flag)

\* write_restart(fp) on a fresh file
WriteRestart ==
    /\ err = NoError
    /\ UNCHANGED <<configVars, evalVars, solveVars>>
    /\ allocated = 1
    /\ lastOp' = <<"write_restart">>
    /\ fp' = WritePairs(WriteSettings(<< >>), 1)
    /\ saved' = [temperature |-> temperature, cut_global |-> cut_global,
                 seed |-> seed, mix_flag |-> mix_flag, setflag |-> setflag,
                 a0 |-> a0, gamma |-> gamma, cut |-> cut]
    /\ UNCHANGED <<allocated, setflag, a0, gamma, cut, sigma, temperature,
                   cut_global, seed, mix_flag, random, err, inited, nops>>

\* ReadPair with the coefficients read whatever the flag says
ReadPairAlways(file, st, i, j) ==
    LET flag == Fread(file, st.off, SizeofInt)
        o1   == st.off + SizeofInt
    IN  [off     |-> o1 + 3 * SizeofDouble,
         setflag |-> [st.setflag EXCEPT ![i][j] = flag],
         a0      |-> [st.a0 EXCEPT ![i][j] = Fread(file, o1, SizeofDouble)],
         gamma   |-> [st.gamma EXCEPT ![i][j] =
                         Fread(file, o1 + SizeofDouble, SizeofDouble)],
         cut     |-> [st.cut EXCEPT ![i][j] =
                         Fread(file, o1 + 2 * SizeofDouble, SizeofDouble)]]

\* what read_restart() reads for the pair (i, j); st holds the file offset
\* and the tables read so far
ReadPair(file, st, i, j) ==
    LET flag == Fread(file, st.off, SizeofInt)
        o1   == st.off + SizeofInt
    IN  IF flag # 0
        THEN [off     |-> o1 + 3 * SizeofDouble,
              setflag |-> [st.setflag EXCEPT ![i][j] = flag],
              a0      |-> [st.a0 EXCEPT ![i][j] = Fread(file, o1, SizeofDouble)],
              gamma   |-> [st.gamma EXCEPT ![i][j] =
                              Fread(file, o1 + SizeofDouble, SizeofDouble)],
              cut     |-> [st.cut EXCEPT ![i][j] =
                              Fread(file, o1 + 2 * SizeofDouble, SizeofDouble)]]
        ELSE [st EXCEPT !.off = o1, !.setflag[i][j] = flag]

RECURSIVE ReadPairs(_, _, _)
ReadPairs(file, st, k) ==
    IF k > Len(PairSeq) THEN st
    ELSE ReadPairs(file, ReadPair(file, st, PairSeq[k][1], PairSeq[k][2]), k + 1)

\* read_restart(fp): read_restart_settings(fp), allocate(), then the pairs
ReadRestart ==
    /\ err = NoError
    /\ UNCHANGED <<configVars, evalVars, solveVars>>
    /\ fp # << >>
    /\ inited' = {}
    /\ temperature' = Fread(fp, 0, SizeofDouble)
    /\ cut_global' = Fread(fp, SizeofDouble, SizeofDouble)
    /\ seed' = Fread(fp, 2 * SizeofDouble, SizeofInt)
    /\ mix_flag' = Fread(fp, 2 * SizeofDouble + SizeofInt, SizeofInt)
    /\ random' = seed' + me
    /\ allocated' = 1
    /\ sigma' = Table(0)
    /\ \E g \in Garbage :
        LET st == ReadPairs(fp,
                      [off |-> 2 * SizeofDouble + 2 * SizeofInt,
                       setflag |-> AllocSetflag(g), a0 |-> Table(g),
                       gamma |-> Table(0), cut |-> Table(g)], 1)
        IN  /\ setflag' = st.setflag
            /\ a0' = st.a0
            /\ gamma' = st.gamma
            /\ cut' = st.cut
            /\ lastOp' = <<"read_restart", st.off>>
    /\ UNCHANGED <<err, fp, saved, nops>>

\* compute() / compute_step() reading the coefficients of the type pair of
\* two neighbours; a run starts once init_one() has returned for every pair
UsePair(itype, jtype) ==
    /\ err = NoError
    /\ UNCHANGED <<configVars, evalVars, solveVars>>
    /\ inited = PairSet
    /\ lastOp' = <<"compute", itype, jtype>>
    /\ UNCHANGED <<allocated, setflag, a0, gamma, cut, sigma, temperature,
                   cut_global, seed, mix_flag, random, err, fp, saved,
                   inited, nops>>

SetupNext ==
    \/ \E narg \in {2, 3}, T \in Temps, cg \in Cuts, sd \in Seeds :
          Settings(narg, T, cg, sd)
    \/ \E narg \in {3, 4, 5}, ir \in TypeRanges, jr \in TypeRanges,
          a \in A0s, g \in Gammas :
          \E c \in (IF narg = 5 THEN CutArgs ELSE {0}) :
          Coeff(narg, ir[1], ir[2], jr[1], jr[2], a, g, c)
    \/ \E p \in PairSet : InitOne(p[1], p[2])
    \/ WriteRestart
    \/ ReadRestart
    \/ \E itype \in Types, jtype \in Types : UsePair(itype, jtype)

SpecSetup == SetupInit /\ [][SetupNext]_vars

\* ------------------------------------------------------------------------
\* claims about the setup
\* ------------------------------------------------------------------------

\* the persisted block of one pair: the flag, then a0, gamma, cut if set
PairBlock(sv, i, j) ==
    IF sv.setflag[i][j] # 0
    THEN << <<SizeofInt, sv.setflag[i][j]>>, <<SizeofDouble, sv.a0[i][j]>>,
            <<SizeofDouble, sv.gamma[i][j]>>, <<SizeofDouble, sv.cut[i][j]>> >>
    ELSE << <<SizeofInt, sv.setflag[i][j]>> >>

RECURSIVE PairBlocks(_, _)
PairBlocks(sv, k) ==
    IF k > Len(PairSeq) THEN << >>
    ELSE PairBlock(sv, PairSeq[k][1], PairSeq[k][2]) \o PairBlocks(sv, k + 1)

\* the persisted layout of a table: the settings block, then the pairs
LayoutOf(sv) ==
    << <<SizeofDouble, sv.temperature>>, <<SizeofDouble, sv.cut_global>>,
       <<SizeofInt, sv.seed>>, <<SizeofInt, sv.mix_flag>> >> \o PairBlocks(sv, 1)

\* C8: restart round trip.  After read_restart() of the file write_restart()
\* wrote, the settings block and every pair's set-flag are those of the
\* table written, a set pair's a0, gamma and cut are read back unchanged, the
\* file holds the settings and the pairs in the fixed order with no
\* coefficient bytes for an unset pair, and the read ends at the file's end.
C8_RestartRoundTrip ==
    lastOp[1] = "read_restart" =>
        /\ fp = LayoutOf(saved)
        /\ lastOp[2] = FileBytes(fp)
        /\ temperature = saved.temperature
        /\ cut_global = saved.cut_global
        /\ seed = saved.seed
        /\ mix_flag = saved.mix_flag
        /\ \A p \in PairSet :
            /\ setflag[p[1]][p[2]] = saved.setflag[p[1]][p[2]]
            /\ setflag[p[1]][p[2]] # 0 =>
                /\ a0[p[1]][p[2]] = saved.a0[p[1]][p[2]]
                /\ gamma[p[1]][p[2]] = saved.gamma[p[1]][p[2]]
                /\ cut[p[1]][p[2]] = saved.cut[p[1]][p[2]]

\* a file with an unset pair followed by a set pair has been read back
C8_Witness ==
    /\ lastOp[1] = "read_restart"
    /\ setflag[1][1] = 0
    /\ setflag[ntypes][ntypes] = 1
    /\ a0[ntypes][ntypes] # gamma[ntypes][ntypes]
    /\ cut[ntypes][ntypes] # gamma[ntypes][ntypes]

\* the step is init_one(i, j) on a pair whose coefficients were never set
InitOneUnsetStep ==
    /\ lastOp'[1] = "init_one"
    /\ setflag[lastOp'[2]][lastOp'[3]] = 0

\* C9: a type pair whose coefficients were never set is never used by an
\* evaluation: init_one() on such a pair raises the fatal error and derives
\* or mirrors no coefficient, and every pair an evaluation reads is set.
C9_UnsetPairNeverUsed ==
    /\ [](lastOp[1] = "compute" =>
            setflag[MIN(lastOp[2], lastOp[3])][MAX(lastOp[2], lastOp[3])] # 0)
    /\ [][InitOneUnsetStep =>
            /\ err' = "All pair coeffs are not set"
            /\ UNCHANGED <<a0, gamma, cut, sigma, setflag, inited>>]_vars
    /\ [][err # NoError => UNCHANGED vars]_vars

\* init_one() has failed on an unset pair while another pair was set
C9_Witness ==
    /\ lastOp[1] = "init_one"
    /\ err = "All pair coeffs are not set"
    /\ setflag[lastOp[2]][lastOp[3]] = 0
    /\ setflag[1][1] = 1

\* C10: after init_one(i, j) succeeds the entry is symmetric and the noise
\* coefficient is the square root (rounded down to the resolution) of
\* 2 * kB * T * gamma[i][j] for the temperature and friction in force.
C10_InitOneSymmetricSigma ==
    (lastOp[1] = "init_one" /\ err = NoError) =>
        LET i == lastOp[2]
            j == lastOp[3]
            X == Fmul(Fmul(2 * boltz, temperature), gamma[i][j])
            s == sigma[i][j]
        IN  /\ cut[j][i] = cut[i][j]
            /\ a0[j][i] = a0[i][j]
            /\ gamma[j][i] = gamma[i][j]
            /\ sigma[j][i] = sigma[i][j]
            /\ s >= 0
            /\ s * s <= X * Unit
            /\ X * Unit < (s + 1) * (s + 1)

\* init_one() has succeeded on a pair of two types with friction
C10_Witness ==
    /\ lastOp[1] = "init_one"
    /\ err = NoError
    /\ lastOp[2] # lastOp[3]
    /\ gamma[lastOp[2]][lastOp[3]] > 0
    /\ sigma[lastOp[3]][lastOp[2]] > 0

\* ------------------------------------------------------------------------
\* one evaluation: the data the engine supplies
\* ------------------------------------------------------------------------

\* atom->nlocal: the owned atoms are 0 .. NLocal-1
NLocal == 2

\* the ghost atoms are NLocal .. NLocal+NGhost-1
NGhost == 1

Owned == 0..(NLocal - 1)

Atoms == 0..(NLocal + NGhost - 1)

\* the indices of a state vector, double[3*atom->nlocal]
Idx == 0..(3 * NLocal - 1)

ZeroVec == [k \in Idx |-> 0]

\* 1.0e-10, with lengths counted in multiples of EPSILON/2
EPSILON == 2 * Unit

\* force->special_lj[0..3]
special_lj == <<Unit, 0, Unit \div 2, Unit>>

\* list->inum and list->ilist
inum == NLocal

ilist == [k \in 0..(NLocal - 1) |-> k]

\* cutsq[itype][jtype], set by the engine from the cutoff init_one returns
cutsq(itype, jtype) == Fmul(cut[itype][jtype], cut[itype][jtype])

\* ------------------------------------------------------------------------
\* one evaluation: the arithmetic of one neighbour pair
\* ------------------------------------------------------------------------

\* delx, dely, delz
Del(i, j) == <<x[i][1] - x[j][1], x[i][2] - x[j][2], x[i][3] - x[j][3]>>

Rsq(d) == Fmul(d[1], d[1]) + Fmul(d[2], d[2]) + Fmul(d[3], d[3])

\* a cutoff test that lets every pair through
InCutoffAlways(rsq, itype, jtype) == TRUE

\* rsq < cutsq[itype][jtype]
InCutoff(rsq, itype, jtype) == rsq < cutsq(itype, jtype)

\* Degenerate with the test left out
DegenerateNever(r) == FALSE

\* r < EPSILON: the pair is skipped
Degenerate(r) == r < EPSILON

\* rinv = 1.0/r; for r = 0 the quotient is not finite, which divByZero records
Rinv(r) == IF r = 0 THEN 0 ELSE Fdiv(Unit, r)

\* wd = 1.0 - r/cut[itype][jtype]
Wd(r, itype, jtype) == Unit - Fdiv(r, cut[itype][jtype])

\* dtinvsqrt = 1.0/sqrt(update->dt)
dtinvsqrt == Fdiv(Unit, Fsqrt(dt))

\* fpair of compute(): conservative plus random force over r
FpairFull(r, itype, jtype, randnum, factor_dpd) ==
    LET wd == Wd(r, itype, jtype)
        f1 == Fmul(a0[itype][jtype], wd)
        f2 == f1 + Fmul(Fmul(Fmul(sigma[itype][jtype], wd), randnum), dtinvsqrt)
    IN  Fmul(f2, Fmul(factor_dpd, Rinv(r)))

\* pre = -update->dt / 2.0
pre == Fdiv(0 - dt, 2 * Unit)

\* the index of the trial velocity compute_step() reads for its atom i
VtmpIndex(i) == 3 * i

\* the index of a particle's entries by its tag
TagIndex(p) == 3 * (tag[p] - 1)

\* fpair of compute_step(): the drag on the relative trial velocity
FpairStep(inp, i, j, d, r, itype, jtype, factor_dpd) ==
    LET delvx == inp[VtmpIndex(i)] - inp[TagIndex(j)]
        delvy == inp[VtmpIndex(i) + 1] - inp[TagIndex(j) + 1]
        delvz == inp[VtmpIndex(i) + 2] - inp[TagIndex(j) + 2]
        dot   == Fmul(d[1], delvx) + Fmul(d[2], delvy) + Fmul(d[3], delvz)
        wd    == Wd(r, itype, jtype)
        f1    == Fmul(Fmul(Fmul(Fmul(0 - gamma[itype][jtype], wd), wd), dot),
                      Rinv(r))
    IN  Fmul(f1, Fmul(Fmul(pre, factor_dpd), Rinv(r)))

\* delx*fpair, dely*fpair, delz*fpair
Force3(d, fpair) == <<Fmul(d[1], fpair), Fmul(d[2], fpair), Fmul(d[3], fpair)>>

\* vec[base+c] += d[c]
AddAt(vec, base, d) ==
    [k \in DOMAIN vec |->
        IF base <= k /\ k <= base + 2 THEN vec[k] + d[k - base + 1] ELSE vec[k]]

\* SubAt with the sign of the update wrong
SubAtPlus(vec, base, d) ==
    [k \in DOMAIN vec |->
        IF base <= k /\ k <= base + 2 THEN vec[k] + d[k - base + 1] ELSE vec[k]]

\* vec[base+c] -= d[c]
SubAt(vec, base, d) ==
    [k \in DOMAIN vec |->
        IF base <= k /\ k <= base + 2 THEN vec[k] - d[k - base + 1] ELSE vec[k]]

\* newton_pair || j < nlocal
UpdatesJ(j) == newton_pair # 0 \/ j < NLocal

\* the update of both endpoints' entries by the pair's force
PairUpdate(vec, i, j, d) ==
    LET v1 == AddAt(vec, TagIndex(i), d)
    IN  IF UpdatesJ(j) THEN SubAt(v1, TagIndex(j), d) ELSE v1

\* ------------------------------------------------------------------------
\* compute(): the neighbour loop and the scaling loop
\* ------------------------------------------------------------------------

\* what random->gaussian() may return
Gaussians == {0 - Unit - Unit \div 2, Unit}

\* evflag, as ev_setup(eflag, vflag) sets it with vflag = 0
evflag == eflag # 0

\* the record of a step: what it did, for which atoms, and which state-vector
\* index it used for which particle
Did(kind, i, j, acc) == [kind |-> kind, i |-> i, j |-> j, acc |-> acc]

\* start of one turn of the loop over ilist, or its end
ComputeAtom ==
    /\ mode = "full"
    /\ pc = "atom"
    /\ UNCHANGED <<setupVars, configVars, solveVars>>
    /\ UNCHANGED <<mode, f_step, input, output, divByZero, draws, tallies>>
    /\ IF ii < inum
       THEN /\ pc' = "pair"
            /\ jj' = 0
            /\ ii' = ii
            /\ last' = Did("atom", ilist[ii], 0, {})
       ELSE /\ pc' = "scale"
            /\ UNCHANGED <<ii, jj>>
            /\ last' = Did("endloop", 0, 0, {})

\* one turn of the loop over the neighbours of atom ilist[ii]
ComputePair ==
    /\ mode = "full"
    /\ pc = "pair"
    /\ UNCHANGED <<setupVars, configVars, solveVars>>
    /\ UNCHANGED <<mode, input, output>>
    /\ LET i == ilist[ii]
       IN  IF jj >= Len(firstneigh[i])
           THEN /\ ii' = ii + 1
                /\ pc' = "atom"
                /\ last' = Did("endatom", i, 0, {})
                /\ UNCHANGED <<jj, f_step, divByZero, draws, tallies>>
           ELSE LET j == firstneigh[i][jj + 1][1]
                    factor_dpd == special_lj[firstneigh[i][jj + 1][2] + 1]
                    d == Del(i, j)
                    rsq == Rsq(d)
                    r == Fsqrt(rsq)
                IN  /\ jj' = jj + 1
                    /\ UNCHANGED <<ii, pc>>
                    /\ IF ~InCutoff(rsq, type[i], type[j])
                       THEN /\ last' = Did("far", i, j, {})
                            /\ UNCHANGED <<f_step, divByZero, draws, tallies>>
                       ELSE IF Degenerate(r)
                       THEN /\ last' = Did("degenerate", i, j, {})
                            /\ UNCHANGED <<f_step, divByZero, draws, tallies>>
                       ELSE \E randnum \in Gaussians :
                            LET fpair == FpairFull(r, type[i], type[j], randnum,
                                                   factor_dpd)
                            IN  /\ f_step' = PairUpdate(f_step, i, j, Force3(d, fpair))
                                /\ divByZero' = (divByZero \/ r = 0)
                                /\ draws' = draws + 1
                                /\ tallies' = IF evflag THEN tallies + 1 ELSE tallies
                                /\ last' = Did("force", i, j,
                                               {<<i, TagIndex(i)>>} \cup
                                               (IF UpdatesJ(j)
                                                THEN {<<j, TagIndex(j)>>} ELSE {}))

\* the index of f_step the scaling loop pairs with the velocity of atom i
ScaleIndex(i) == 3 * i

\* the component of v[i] the scaling loop carries into component c (1..3)
CarryComponent(c) == 1

\* f_step after the scaling loop: times dt*dt/2, plus dt times a velocity
ScaleCarry(vec) ==
    [k \in Idx |->
        LET i == CHOOSE a \in Owned : ScaleIndex(a) <= k /\ k <= ScaleIndex(a) + 2
            c == k - ScaleIndex(i) + 1
        IN  Fmul(vec[k], Fdiv(Fmul(dt, dt), 2 * Unit))
            + Fmul(dt, v[i][CarryComponent(c)])]

\* the loop after the neighbour loop; f_step is then handed to compute_inverse
ComputeScale ==
    /\ mode = "full"
    /\ pc = "scale"
    /\ UNCHANGED <<setupVars, configVars, solveVars>>
    /\ UNCHANGED <<mode, ii, jj, input, output, divByZero, draws, tallies>>
    /\ f_step' = ScaleCarry(f_step)
    /\ pc' = "rhs"
    /\ last' = Did("scale", 0, 0, {<<i, ScaleIndex(i)>> : i \in Owned})

\* ------------------------------------------------------------------------
\* compute_step(input, output)
\* ------------------------------------------------------------------------

\* output[3*itag+c] += input[3*itag+c]
StepIdentity(inp, out, i) ==
    AddAt(out, TagIndex(i),
          <<inp[TagIndex(i)], inp[TagIndex(i) + 1], inp[TagIndex(i) + 2]>>)

\* what kind of pair the neighbour entry e of atom i is
PairKind(i, e) ==
    LET r == Fsqrt(Rsq(Del(i, e[1])))
    IN  IF ~InCutoff(Rsq(Del(i, e[1])), type[i], type[e[1]]) THEN "far"
        ELSE IF Degenerate(r) THEN "degenerate"
        ELSE "force"

\* output after the turn of the neighbour loop for entry e of atom i
StepPairOut(inp, out, i, e) ==
    LET j == e[1]
        d == Del(i, j)
        r == Fsqrt(Rsq(d))
    IN  IF PairKind(i, e) = "force"
        THEN PairUpdate(out, i, j,
                 Force3(d, FpairStep(inp, i, j, d, r, type[i], type[j],
                                     special_lj[e[2] + 1])))
        ELSE out

RECURSIVE StepNeighOut(_, _, _, _)
StepNeighOut(inp, out, i, k) ==
    IF k > Len(firstneigh[i]) THEN out
    ELSE StepNeighOut(inp, StepPairOut(inp, out, i, firstneigh[i][k]), i, k + 1)

RECURSIVE StepAtomsOut(_, _, _)
StepAtomsOut(inp, out, k) ==
    IF k >= inum THEN out
    ELSE StepAtomsOut(inp,
             StepNeighOut(inp, StepIdentity(inp, out, ilist[k]), ilist[k], 1),
             k + 1)

\* the whole of compute_step: what it leaves in a buffer that held out
ComputeStep(inp, out) == StepAtomsOut(inp, out, 0)

StepAtom ==
    /\ mode = "step"
    /\ pc = "atom"
    /\ UNCHANGED <<setupVars, configVars, solveVars>>
    /\ UNCHANGED <<mode, f_step, input, divByZero, draws, tallies>>
    /\ IF ii < inum
       THEN /\ output' = StepIdentity(input, output, ilist[ii])
            /\ pc' = "pair"
            /\ jj' = 0
            /\ ii' = ii
            /\ last' = Did("identity", ilist[ii], 0,
                           {<<ilist[ii], TagIndex(ilist[ii])>>})
       ELSE /\ pc' = "done"
            /\ UNCHANGED <<ii, jj, output>>
            /\ last' = Did("endloop", 0, 0, {})

StepPair ==
    /\ mode = "step"
    /\ pc = "pair"
    /\ UNCHANGED <<setupVars, configVars, solveVars>>
    /\ UNCHANGED <<mode, f_step, input, draws, tallies>>
    /\ LET i == ilist[ii]
       IN  IF jj >= Len(firstneigh[i])
           THEN /\ ii' = ii + 1
                /\ pc' = "atom"
                /\ last' = Did("endatom", i, 0, {})
                /\ UNCHANGED <<jj, output, divByZero>>
           ELSE LET e == firstneigh[i][jj + 1]
                    j == e[1]
                    kind == PairKind(i, e)
                IN  /\ jj' = jj + 1
                    /\ UNCHANGED <<ii, pc>>
                    /\ output' = StepPairOut(input, output, i, e)
                    /\ divByZero' = (divByZero \/
                           (kind = "force" /\ Fsqrt(Rsq(Del(i, j))) = 0))
                    /\ last' = Did(kind, i, j,
                           IF kind = "force"
                           THEN {<<i, VtmpIndex(i)>>, <<i, TagIndex(i)>>,
                                 <<j, TagIndex(j)>>}
                           ELSE {})

\* ------------------------------------------------------------------------
\* the evaluations checked: every choice of the engine's data below
\* ------------------------------------------------------------------------

Sites == {<<0, 0, 0>>, <<0, 0, Unit>>, <<Unit, 2 * Unit, 2 * Unit>>,
          <<4 * Unit, 4 * Unit, 4 * Unit>>}

GhostSites == {<<0, 0, Unit>>, <<Unit, 2 * Unit, 2 * Unit>>}

Dts == {Unit \div 2, 2 * Unit}

\* the tags of the owned atoms: a dense relabeling 1..NLocal
RECURSIVE Perms(_)
Perms(S) ==
    IF S = {} THEN {<< >>}
    ELSE UNION {{<<t>> \o q : q \in Perms(S \ {t})} : t \in S}

OwnedTags == Perms(1..NLocal)

\* a parameter table as init_one() leaves it: symmetric, sigma derived
SymTable(v11, v12, v22) ==
    [i \in Types |-> [j \in Types |->
        IF i = j THEN (IF i = 1 THEN v11 ELSE v22) ELSE v12]]

EvalTables ==
    {[a0 |-> SymTable(25 * Unit, 25 * Unit, 25 * Unit),
      gamma |-> SymTable(4500, 4500, 4500),
      cut |-> SymTable(4 * Unit, 6 * Unit, 4 * Unit)],
     [a0 |-> SymTable(18 * Unit, 3 * Unit, 0),
      gamma |-> SymTable(0, 3 * Unit, 4500),
      cut |-> SymTable(6 * Unit, 6 * Unit, 6 * Unit)]}

Velocities ==
    {[a \in Atoms |-> <<Unit * (a + 1), 0 - 2 * Unit, 3 * Unit * (a + 1)>>]}

\* trial velocity fields handed to compute_step
Inputs ==
    {ZeroVec,
     [k \in Idx |-> IF k = 0 THEN Unit ELSE 0],
     [k \in Idx |-> (k + 1) * (Unit \div 4) - (IF k % 2 = 1 THEN Unit ELSE 0)]}

\* what the output buffer may hold when compute_step is called
Buffers == {ZeroVec, [k \in Idx |-> 100 * (k + 1)]}

\* the setup an evaluation runs under: all coefficients set and initialised
SetupDone(tb, T) ==
    /\ allocated = 1
    /\ setflag = Table(1)
    /\ a0 = tb.a0
    /\ gamma = tb.gamma
    /\ cut = tb.cut
    /\ sigma = [i \in Types |-> [j \in Types |-> SigmaOf(T, tb.gamma[i][j])]]
    /\ temperature = T
    /\ cut_global = 4 * Unit
    /\ seed = 7
    /\ mix_flag = 0
    /\ random = 7 + me
    /\ err = NoError
    /\ fp = << >>
    /\ saved = 0
    /\ inited = PairSet
    /\ lastOp = <<"init_one", ntypes, ntypes>>
    /\ nops = 0

\* the engine's data: atom 0 at the origin, the others anywhere among the
\* sites; a ghost is the image of the owned atom whose tag it bears
ConfigInit ==
    /\ \E p1 \in Sites, p2 \in GhostSites :
          x = [a \in Atoms |-> IF a = 0 THEN <<0, 0, 0>>
                               ELSE IF a = 1 THEN p1 ELSE p2]
    /\ \E ot \in OwnedTags, gt \in 1..NLocal :
          /\ tag = [a \in Atoms |-> IF a < NLocal THEN ot[a + 1] ELSE gt]
          /\ type = [a \in Atoms |->
                        LET o == IF a < NLocal THEN a
                                 ELSE CHOOSE b \in Owned : ot[b + 1] = gt
                        IN  IF o = 0 THEN 1 ELSE ntypes]
    /\ \E sb \in {0, 2} :
          firstneigh = [i \in Owned |->
              [k \in 1..(NLocal + NGhost - 1 - i) |->
                  <<i + k, IF i = 0 /\ k = 1 THEN sb ELSE 0>>]]
    /\ newton_pair \in {0, 1}
    /\ dt \in Dts

EvalInit ==
    /\ \E tb \in EvalTables : SetupDone(tb, Unit)
    /\ SolveIdle
    /\ ConfigInit
    /\ mode \in {"full", "step"}
    /\ v \in Velocities
    /\ eflag \in (IF mode = "full" THEN {0, 1} ELSE {0})
    /\ input \in (IF mode = "step" THEN Inputs ELSE {ZeroVec})
    /\ output \in (IF mode = "step" THEN Buffers ELSE {ZeroVec})
    /\ f_step = ZeroVec
    /\ pc = "atom"
    /\ ii = 0
    /\ jj = 0
    /\ last = Did("init", 0, 0, {})
    /\ divByZero = FALSE
    /\ draws = 0
    /\ tallies = 0

EvalNext ==
    \/ ComputeAtom
    \/ ComputePair
    \/ ComputeScale
    \/ StepAtom
    \/ StepPair

Spec == EvalInit /\ [][EvalNext]_vars

\* ------------------------------------------------------------------------
\* claims about one evaluation
\* ------------------------------------------------------------------------

\* the neighbour entry the next turn of the neighbour loop visits
VisitedPair == firstneigh[ilist[ii]][jj + 1]

\* the step is a turn of the neighbour loop of either mode
PairStep == pc = "pair" /\ jj' = jj + 1

\* the step is a turn of compute()'s neighbour loop that applies a force
ForceStep == mode = "full" /\ PairStep /\ last'.kind = "force"

\* the change of entry k of f_step in the step
Delta(k) == f_step'[k] - f_step[k]

\* the step changes the entries at it and at jt by opposite amounts (adding a
\* force and its negation to the same entries leaves them as they were) and
\* changes no other entry
OppositeAt(it, jt) ==
    /\ \A c \in 0..2 :
          IF it = jt THEN Delta(it + c) = 0
          ELSE Delta(it + c) = 0 - Delta(jt + c)
    /\ \A k \in Idx : (k < it \/ k > it + 2) /\ (k < jt \/ k > jt + 2)
                         => Delta(k) = 0

\* the step changes the entries at it alone
OnlyAt(it) == \A k \in Idx : (k < it \/ k > it + 2) => Delta(k) = 0

\* C1 as claimed: in full mode every in-cutoff non-degenerate pair adds a
\* force to i's entries and its exact negation to j's entries, whatever
\* newton_pair is and whether j is owned or a ghost.
C1_OppositeForcesAlways ==
    [][ForceStep => OppositeAt(TagIndex(last'.i), TagIndex(last'.j))]_vars

\* C1 as amended: the negation is added to j's entries when newton_pair is
\* set or j is an owned atom (j < nlocal); for a ghost neighbour with
\* newton_pair off the force is added to i's entries alone.
C1_OppositeForcesWhenUpdated ==
    [][ForceStep =>
          IF newton_pair # 0 \/ last'.j < NLocal
          THEN OppositeAt(TagIndex(last'.i), TagIndex(last'.j))
          ELSE OnlyAt(TagIndex(last'.i))]_vars

\* a force was applied for a ghost neighbour with newton_pair off, and the
\* entries of i hold it
C1_Witness ==
    /\ mode = "full"
    /\ last.kind = "force"
    /\ newton_pair = 0
    /\ last.j >= NLocal
    /\ tag[last.j] # tag[last.i]
    /\ \E c \in 0..2 : f_step[TagIndex(last.i) + c] # 0

\* C2: compute_step delivers a function of its input alone: the output does
\* not depend on what the buffer held before the call, and step(0) = 0.
C2_StepFunctionOfInput ==
    (mode = "step" /\ pc = "done") =>
        /\ output = ComputeStep(input, ZeroVec)
        /\ (input = ZeroVec => output = ZeroVec)

\* the step visits a pair whose separation is below EPSILON
DegenerateStep ==
    /\ PairStep
    /\ jj < Len(firstneigh[ilist[ii]])
    /\ Fsqrt(Rsq(Del(ilist[ii], VisitedPair[1]))) < EPSILON

\* C3: a pair with separation below EPSILON adds nothing to any entry in
\* either mode, no division by its r is performed, no error is raised and
\* the loop goes on to the next neighbour.
C3_DegeneratePairSkipped ==
    [][DegenerateStep =>
          /\ f_step' = f_step
          /\ output' = output
          /\ divByZero' = FALSE
          /\ err' = NoError
          /\ draws' = draws
          /\ pc' = "pair"
          /\ ii' = ii]_vars

\* compute_step has skipped a pair of two atoms at the same position while
\* applying the operator to a trial velocity that is not zero
C3_Witness ==
    /\ mode = "step"
    /\ last.kind = "degenerate"
    /\ x[last.i] = x[last.j]
    /\ input # ZeroVec
    /\ divByZero = FALSE

\* C4: the right-hand side handed to compute_inverse is, for every owned
\* particle p and component c, (dt*dt/2) * F[p, c] + dt * v[p, c].
C4_RhsScaling ==
    [][(mode = "full" /\ pc = "scale" /\ pc' = "rhs") =>
          \A p \in Owned : \A c \in 0..2 :
              f_step'[TagIndex(p) + c] =
                  Fmul(f_step[TagIndex(p) + c], Fdiv(Fmul(dt, dt), 2 * Unit))
                  + Fmul(dt, v[p][c + 1])]_vars

\* C5: every read and write of particle p's entries in a state vector uses
\* the index 3*(tag[p]-1)+c.
C5_SingleIndex ==
    \A a \in last.acc : a[2] = 3 * (tag[a[1]] - 1)


\* ------------------------------------------------------------------------
\* compute_inverse(): the Lanczos iteration for (matrix of compute_step)^-1
\* ------------------------------------------------------------------------

\* the fixed number of Lanczos columns
mLanczos == 10

\* the convergence tolerance 0.00001, rounded up to the resolution of the
\* numbers here: a distance below it is a distance of 0
tolLanczos == 1

\* a vector that may hold non-finite entries (inf, nan): once one entry of a
\* product with the inverse of a singular matrix is non-finite, all are
Finite(vec) == [finite |-> TRUE, val |-> vec]

NonFinite == [finite |-> FALSE, val |-> ZeroVec]

\* the function f with every value computed once, as an array holds it
Stored(f) == f @@ f

\* the same for a matrix, an array of rows
StoredRows(M) == Stored([r \in DOMAIN M |-> Stored(M[r])])

RECURSIVE SumTo(_, _)
\* f[0] + ... + f[n - 1]
SumTo(f, n) == IF n = 0 THEN 0 ELSE f[n - 1] + SumTo(f, n - 1)

\* a.adjoint() * b: the products are summed before the sum is rounded
Dot(a, b) == RoundDiv(SumTo([e \in Idx |-> a[e] * b[e]], 3 * NLocal), Unit)

\* a.norm()
Norm(a) == Isqrt(SumTo([e \in Idx |-> a[e] * a[e]], 3 * NLocal))

\* a.normalized(): a vector of squared norm 0 is returned as it is
Normalized(a) ==
    LET z == SumTo([e \in Idx |-> a[e] * a[e]], 3 * NLocal)
    IN  IF z > 0 THEN Stored([e \in Idx |-> Fdiv(a[e], Isqrt(z))]) ELSE a

\* a - s * b
Axpy(a, s, b) == Stored([e \in Idx |-> a[e] - Fmul(s, b[e])])

\* the k x k matrix Hk of alpha (diagonal) and beta (both side diagonals),
\* with the vector e1 as column k
HkE1(al, be, n) ==
    StoredRows([i \in 0..(n - 1) |-> [j \in 0..n |->
        IF j = n THEN (IF i = 0 THEN Unit ELSE 0)
        ELSE IF i = j THEN al[i + 1]
        ELSE IF i = j + 1 \/ i = j - 1 THEN be[MAX(i, j)]
        ELSE 0]])

\* the first row from c on whose entry in column c is largest in magnitude
PivotRow(M, c, n) ==
    LET big == CHOOSE b \in {Abs(M[r][c]) : r \in c..(n - 1)} :
                   \A r \in c..(n - 1) : Abs(M[r][c]) <= b
    IN  CHOOSE p \in c..(n - 1) :
            /\ Abs(M[p][c]) = big
            /\ \A r \in c..(p - 1) : Abs(M[r][c]) < big

RECURSIVE Eliminate(_, _, _)
\* elimination with partial pivoting from column c on; ok is FALSE when a
\* pivot is exactly zero
Eliminate(M, c, n) ==
    IF c = n THEN [ok |-> TRUE, m |-> M]
    ELSE LET p == PivotRow(M, c, n)
             S == [r \in 0..(n - 1) |->
                      IF r = c THEN M[p] ELSE IF r = p THEN M[c] ELSE M[r]]
             E == StoredRows([r \in 0..(n - 1) |->
                      IF r <= c THEN S[r]
                      ELSE [j \in 0..n |->
                               IF j <= c THEN 0
                               ELSE S[r][j] -
                                    Fmul(Fdiv(S[r][c], S[c][c]), S[c][j])]])
         IN  IF M[p][c] = 0 THEN [ok |-> FALSE, m |-> M]
             ELSE Eliminate(E, c + 1, n)

RECURSIVE BackSub(_, _, _, _)
\* the solution of the triangular system, rows r down to 0; y holds the
\* entries found so far
BackSub(M, r, n, y) ==
    IF r < 0 THEN y
    ELSE LET s == SumTo([j \in 0..(n - 1) |->
                            IF j > r THEN M[r][j] * y[j] ELSE 0], n)
             yr == Fdiv(M[r][n] - RoundDiv(s, Unit), M[r][r])
         IN  BackSub(M, r - 1, n, Stored([y EXCEPT ![r] = yr]))

\* Hk.inverse() * e1: no test for a singular Hk is made, the division by a
\* zero pivot leaves non-finite entries
InverseE1(al, be, n) ==
    LET lu == Eliminate(HkE1(al, be, n), 0, n)
    IN  IF lu.ok
        THEN [finite |-> TRUE,
              val |-> BackSub(lu.m, n - 1, n, [j \in 0..(n - 1) |-> 0])]
        ELSE [finite |-> FALSE, val |-> [j \in 0..(n - 1) |-> 0]]

\* Vn * f_Hk1 * norm
Xk(cols, y, nrm) ==
    IF y.finite
    THEN Finite(Stored([e \in Idx |->
            Fmul(RoundDiv(SumTo([m \in 0..(Len(cols) - 1) |->
                                    cols[m + 1][e] * y.val[m]], Len(cols)),
                          Unit), nrm)]))
    ELSE NonFinite

\* diff_norm < tolLanczos: false when either vector is non-finite
Converged(old, new) ==
    /\ old.finite
    /\ new.finite
    /\ Norm([e \in Idx |-> old.val[e] - new.val[e]]) < tolLanczos

\* a loop that leaves at the first convergence
BreakTaken == TRUE

\* whether a convergence leaves the loop: the statement break after the
\* notice is commented out
BreakOnConvergence == FALSE

\* the setup before the loop: v1 = input / |input|, rk = step(v1), alpha[1]
InverseStart ==
    /\ mode = "inverse"
    /\ pc = "inv_start"
    /\ LET v1 == Normalized(input)
           r == Stored(ComputeStep(v1, ZeroVec))
       IN  /\ norm' = Norm(input)
           /\ Vn' = <<v1>>
           /\ rk' = r
           /\ alpha' = [m \in 0..mLanczos |-> IF m = 1 THEN Dot(v1, r) ELSE 0]
           /\ beta' = [m \in 0..mLanczos |-> 0]
    /\ kk' = 2
    /\ pc' = "inv_loop"
    /\ UNCHANGED <<xk_save, test_out, hist>>
    /\ UNCHANGED <<mode, ii, jj, f_step, input, output, last, divByZero,
                   draws, tallies>>
    /\ UNCHANGED <<setupVars, configVars>>

\* one turn of the loop over k = 2 .. mLanczos
LanczosIter ==
    /\ mode = "inverse"
    /\ pc = "inv_loop"
    /\ kk <= mLanczos
    /\ LET r1 == Axpy(rk, alpha[kk - 1], Vn[kk - 1])
           r2 == IF kk > 2 THEN Axpy(r1, beta[kk - 2], Vn[kk - 2]) ELSE r1
           vk == Normalized(r2)
           r3 == Stored(ComputeStep(vk, r2))
           al == Stored([alpha EXCEPT ![kk] = Dot(vk, r3)])
           be == Stored([beta EXCEPT ![kk - 1] = Norm(r2)])
           cols == Append(Vn, vk)
           y == InverseE1(al, be, kk)
           xk == Xk(cols, y, norm)
           conv == kk > 2 /\ Converged(xk_save, xk)
       IN  /\ Vn' = cols
           /\ rk' = r3
           /\ alpha' = al
           /\ beta' = be
           /\ xk_save' = xk
           /\ hist' = Append(hist, [k |-> kk, xk |-> xk, converged |-> conv,
                                    singular |-> ~y.finite])
           /\ kk' = kk + 1
           /\ pc' = IF kk + 1 > mLanczos \/ (BreakOnConvergence /\ conv)
                    THEN "inv_write" ELSE "inv_loop"
    /\ UNCHANGED <<norm, test_out>>
    /\ UNCHANGED <<mode, ii, jj, f_step, input, output, last, divByZero,
                   draws, tallies>>
    /\ UNCHANGED <<setupVars, configVars>>

\* output[i] = xk_save(i)
InverseWrite ==
    /\ mode = "inverse"
    /\ pc = "inv_write"
    /\ output' = xk_save
    /\ pc' = "inv_test"
    /\ UNCHANGED <<mode, ii, jj, f_step, input, last, divByZero, draws,
                   tallies>>
    /\ UNCHANGED <<setupVars, configVars, solveVars>>

\* the closing test: compute_step(output, test_out) on a buffer test_out
\* that was allocated and never written
InverseTest ==
    /\ mode = "inverse"
    /\ pc = "inv_test"
    /\ \E buf \in Buffers :
          test_out' = IF output.finite
                      THEN Finite(ComputeStep(output.val, buf))
                      ELSE NonFinite
    /\ pc' = "inv_done"
    /\ UNCHANGED <<Vn, rk, alpha, beta, norm, kk, xk_save, hist>>
    /\ UNCHANGED <<mode, ii, jj, f_step, input, output, last, divByZero,
                   draws, tallies>>
    /\ UNCHANGED <<setupVars, configVars>>

\* the calls checked: every engine state of ConfigInit, every right-hand side
SolveInit ==
    /\ \E tb \in EvalTables : SetupDone(tb, Unit)
    /\ ConfigInit
    /\ mode = "inverse"
    /\ v \in Velocities
    /\ eflag = 0
    /\ input \in Inputs
    /\ output = 0
    /\ f_step = ZeroVec
    /\ pc = "inv_start"
    /\ ii = 0
    /\ jj = 0
    /\ last = Did("init", 0, 0, {})
    /\ divByZero = FALSE
    /\ draws = 0
    /\ tallies = 0
    /\ SolveIdle

SolveNext ==
    \/ InverseStart
    \/ LanczosIter
    \/ InverseWrite
    \/ InverseTest

SpecSolve == SolveInit /\ [][SolveNext]_vars

\* ------------------------------------------------------------------------
\* claims about compute_inverse
\* ------------------------------------------------------------------------

\* the loop is over and its turns are recorded in hist
LoopOver == pc \in {"inv_write", "inv_test", "inv_done"}

\* some turn of the loop met a singular Hk
SingularSeen == \E n \in 1..Len(hist) : hist[n].singular

\* the number of steps compute_inverse has left to take
Remaining ==
    CASE pc = "inv_start" -> mLanczos + 2
      [] pc = "inv_loop" -> mLanczos - kk + 3
      [] pc = "inv_write" -> 2
      [] pc = "inv_test" -> 1
      [] OTHER -> 0

\* C6: compute_inverse ends (every step takes it nearer to its end, and a
\* turn of the loop is never entered beyond k = mLanczos), and when its loop
\* is over it has run the turns k = 2 .. mLanczos, each once and in order,
\* whatever the convergence test found; the test is made from k = 3 on and
\* leaves xk_save the xk of the turn; the vector written to output is the
\* xk of the turn k = mLanczos
C6_FixedBudget ==
    /\ [][Remaining' < Remaining]_vars
    /\ [](pc = "inv_loop" => kk \in 2..mLanczos)
    /\ [](LoopOver => /\ Len(hist) = mLanczos - 1
                      /\ \A n \in 1..Len(hist) : hist[n].k = n + 1)
    /\ [](\A n \in 1..Len(hist) : hist[n].k = 2 => ~hist[n].converged)
    /\ [](hist # << >> => xk_save = hist[Len(hist)].xk)
    /\ [](pc \in {"inv_test", "inv_done"} => output = hist[mLanczos - 1].xk)

\* a call that returned a finite result after the convergence test had
\* succeeded in a turn before the last
C6_Witness ==
    /\ pc = "inv_done"
    /\ output.finite
    /\ Len(hist) = mLanczos - 1
    /\ \E n \in 1..(mLanczos - 2) : hist[n].converged /\ hist[n].k < mLanczos

\* C7: once a turn of the loop has met a singular Hk, compute_inverse has
\* raised an error and writes nothing to output
C7_SingularIsFatal == SingularSeen => err # NoError /\ output = 0

\* a turn of the Lanczos loop
LanczosTurn == mode = "inverse" /\ pc = "inv_loop" /\ kk' = kk + 1

\* C11: after every turn k of the Lanczos loop, rk is compute_step applied to
\* the new column v_k alone, with nothing of the orthogonalised rk of before
\* left in it, and alpha[k] is the product of v_k with that rk
C11_ResidualIsOperatorImage ==
    [][LanczosTurn => /\ rk' = ComputeStep(Vn'[kk], ZeroVec)
                      /\ alpha'[kk] = Dot(Vn'[kk], rk')]_vars

\* ------------------------------------------------------------------------
\* one whole call of compute(): the pair loop, the scaling, compute_inverse
\* ------------------------------------------------------------------------

\* compute_inverse(f_step, dr): the right-hand side is f_step, nothing is
\* written to dr yet
CallInverse ==
    /\ mode = "full"
    /\ pc = "rhs"
    /\ mode' = "inverse"
    /\ pc' = "inv_start"
    /\ input' = f_step
    /\ output' = 0
    /\ last' = Did("call", 0, 0, {})
    /\ UNCHANGED <<ii, jj, f_step, divByZero, draws, tallies>>
    /\ UNCHANGED <<setupVars, configVars, solveVars>>

\* the calls checked: compute() and a lone compute_step() at one time step
\* and one parameter table, on every arrangement of the particles
CallInit ==
    /\ EvalInit
    /\ dt = Unit \div 2
    /\ gamma[1][1] = 4500
    /\ tag[0] = 1
    /\ firstneigh[0][1][2] = 0
    /\ mode = "step" => input # ZeroVec /\ output = ZeroVec

CallNext ==
    \/ ComputeAtom
    \/ ComputePair
    \/ ComputeScale
    \/ CallInverse
    \/ InverseStart
    \/ LanczosIter
    \/ InverseWrite
    \/ InverseTest
    \/ StepAtom
    \/ StepPair

SpecCall == CallInit /\ [][CallNext]_vars

\* ------------------------------------------------------------------------
\* claims about one whole call
\* ------------------------------------------------------------------------

\* the pair (i, j) lies inside the cutoff and is not degenerate
DrawingPair(i, j) ==
    LET rsq == Rsq(Del(i, j))
    IN  rsq < cutsq(type[i], type[j]) /\ Fsqrt(rsq) >= EPSILON

\* the number of such pairs in the neighbour lists of the owned atoms
DrawingPairs ==
    Cardinality({e \in {<<i, n>> : i \in Owned, n \in 1..(NLocal + NGhost)} :
                    /\ e[2] <= Len(firstneigh[e[1]])
                    /\ DrawingPair(e[1], firstneigh[e[1]][e[2]][1])})

\* the pair loop of compute() has run
PairLoopOver == mode = "inverse" \/ (mode = "full" /\ pc \in {"scale", "rhs"})

\* the number a step adds to draws when the claim holds
DrawsDue ==
    IF mode = "full" /\ PairStep /\ DrawingPair(ilist[ii], VisitedPair[1])
    THEN 1 ELSE 0

\* a step that draws nothing, tallies nothing, and leaves the vector handed
\* to compute_step as input, the positions and the tables as they were
QuietStep ==
    /\ draws' = draws /\ tallies' = tallies
    /\ x' = x
    /\ <<a0, gamma, sigma, cut>>' = <<a0, gamma, sigma, cut>>
    /\ input' = input
    /\ SubSeq(Vn', 1, Len(Vn)) = Vn
    /\ pc = "inv_start" => Vn'[1] = Normalized(input)
    /\ pc = "inv_test" => output' = output

\* C12: a step draws one Gaussian number when it is the visit, in compute(),
\* of a pair inside the cutoff that is not degenerate, and none otherwise,
\* so that a call has drawn one number per such pair; a step of compute_step
\* or of the solver (the first apply, the apply of each turn, the closing
\* test) draws nothing, tallies nothing, and leaves the vector it was handed
\* as input, the positions and the parameter tables as they were
C12_DrawsOnlyInPairLoop ==
    /\ [][draws' = draws + DrawsDue]_vars
    /\ [](PairLoopOver => draws = DrawingPairs)
    /\ [][(mode = "step" \/ mode = "inverse") => QuietStep]_vars

\* a whole call that has returned, with two pairs that drew a number and a
\* visited pair that drew none, every draw tallied
C12_Witness ==
    /\ mode = "inverse"
    /\ pc = "inv_done"
    /\ Len(hist) = mLanczos - 1
    /\ draws = 2
    /\ DrawingPairs = 2
    /\ tallies = 2

============================================================================
